---- MODULE Spec2Model ----
(***************************************************************************)
(* Hapta2.0: the cache-aside data-access layer.                            *)
(*                                                                         *)
(*   CacheHandler     (core/CacheManager)  the in-memory cache engine      *)
(*   DatabaseService  (core/CrudManager)   the coordinator over the cache  *)
(*                                         and the remote record store     *)
(*                                                                         *)
(* Every DatabaseService method is async: it runs synchronously up to its  *)
(* first await of a remote call, and its continuation runs when the remote *)
(* store answers.  A call in flight is a "flow"; its record holds the      *)
(* method, its arguments, its position and what it has returned.           *)
(***************************************************************************)
EXTENDS Integers, Sequences, FiniteSets, TLC

VARIABLES
    isBatchMode,    \* DatabaseService.isBatchMode
    batchQueue,     \* DatabaseService.batchQueue
    cache,          \* CacheHandler.cache: key -> [data, ttl, compressed]
    now,            \* Date.now(), in milliseconds
    flows,          \* the calls of DatabaseService methods, one per flow
    broadcastCallback,  \* CacheHandler.broadcastCallback is set
    broadcasts,     \* the messages the broadcast callback has been called with
    timesVisited,   \* CacheHandler.timesVisited: key -> incremental
    nextSweep,      \* when the setInterval of startExpirationCheck is due
    written,        \* per key, the last set() a caller of the cache made
    engine,         \* the last call of a CacheHandler method and its result
    remote          \* the remote store: its records, and per flow the answer
                    \* it has ready for the flow's pending request

\* The state DatabaseService's methods never write themselves: the cache
\* engine's own, and the remote store's.
engineVars ==
    <<broadcastCallback, broadcasts, timesVisited, nextSweep, written, engine, remote>>

vars == <<isBatchMode, batchQueue, cache, now, flows, engineVars>>

-----------------------------------------------------------------------------
(* Bounds of the model.                                                    *)

\* The number of elements the batch queue can hold before the process runs
\* out of memory.
MaxQueue == 3

-----------------------------------------------------------------------------
(* JavaScript values.                                                      *)

\* A part handed to generateCacheKey: string | number | undefined.
Str(s) == [t |-> "string", s |-> s, n |-> 0]
Num(n) == [t |-> "number", s |-> "", n |-> n]
Undefined == [t |-> "undefined", s |-> "", n |-> 0]

\* Boolean(part): undefined, "" and 0 are falsy.
Truthy(p) ==
    \/ p.t = "string" /\ p.s # ""
    \/ p.t = "number" /\ p.n # 0

Digits == <<"0", "1", "2", "3", "4", "5", "6", "7", "8", "9">>

\* String(n) for a natural number n.
RECURSIVE NumToString(_)
NumToString(n) ==
    IF n < 10 THEN Digits[n + 1]
    ELSE NumToString(n \div 10) \o Digits[(n % 10) + 1]

\* The string a part contributes to Array.prototype.join.
PartToString(p) ==
    IF p.t = "string" THEN p.s
    ELSE IF p.t = "number" THEN NumToString(p.n)
    ELSE ""

\* Array.prototype.join(sep) on an array of strings.
RECURSIVE Join(_, _)
Join(strs, sep) ==
    IF Len(strs) = 0 THEN ""
    ELSE IF Len(strs) = 1 THEN strs[1]
    ELSE strs[1] \o sep \o Join(Tail(strs), sep)

\* String.prototype.startsWith.
StartsWith(s, prefix) ==
    /\ Len(prefix) <= Len(s)
    /\ SubSeq(s, 1, Len(prefix)) = prefix

\* String.prototype.includes.
Includes(s, sub) ==
    \E i \in 1..(Len(s) - Len(sub) + 1) : SubSeq(s, i, i + Len(sub) - 1) = sub

\* expand?.join(","): expand is undefined or an array of strings.
NoExpand == [some |-> FALSE, list |-> <<>>]
Expand(list) == [some |-> TRUE, list |-> list]
ExpandPart(expand) ==
    IF expand.some THEN Str(Join(expand.list, ",")) ELSE Undefined

\* The object spread {...a, ...b}: b's fields win.
Spread(a, b) == b @@ a

-----------------------------------------------------------------------------
(* CacheHandler, the cache engine.                                         *)

COMPRESSION_THRESHOLD == 1024

\* The methods class CacheHandler declares.
CacheHandlerMethods ==
    {"setBroadcastCallback", "set", "getDynamicTTL", "get", "delete",
     "invalidateByPrefix", "startExpirationCheck"}

\* Map.prototype.has on the cache map.
Has(c, key) == key \in DOMAIN c

\* Map.prototype.delete on the cache map.
MapDelete(c, key) == [k \in (DOMAIN c) \ {key} |-> c[k]]

\* Map.prototype.set on the cache map.
MapSet(c, key, entry) == [k \in (DOMAIN c) \cup {key} |-> IF k = key THEN entry ELSE c[k]]

\* JSON.stringify(data).length, the size the compression test reads.  The
\* values of this model carry their serialized size in the field "size"
\* when they are large; a value without it is a small record.
JsonLength(data) ==
    IF "size" \in DOMAIN data THEN data.size ELSE 64

\* Whether JSON.stringify(data) returns: it throws a TypeError on an object
\* that refers to itself, which the values of this model mark with the
\* field "cyclic".
Serializable(data) == "cyclic" \notin DOMAIN data

\* JSON.stringify(data): the text of an object, its members one after the
\* other, each a name and a value.
RECURSIVE JsonMembers(_, _)
JsonMembers(data, names) ==
    IF names = {} THEN <<>>
    ELSE LET n == CHOOSE x \in names : TRUE
         IN  <<[name |-> n, value |-> data[n]]>> \o JsonMembers(data, names \ {n})

JsonStringify(data) == JsonMembers(data, DOMAIN data)

\* JSON.parse(text): the object with the members the text lists.
JsonParse(text) ==
    [n \in {text[i].name : i \in DOMAIN text} |->
        text[CHOOSE i \in DOMAIN text : text[i].name = n].value]

\* Bun.gzipSync(new TextEncoder().encode(JSON.stringify(data))), and
\* JSON.parse(new TextDecoder().decode(Bun.gunzipSync(bytes))).
Gzip(data) == [gz |-> JsonStringify(data)]
Gunzip(bytes) == JsonParse(bytes.gz)

\* CacheSet without the test of the key.
CacheSetAnyKey(c, key, data, ttlSeconds, t) ==
    LET expiresAt == IF ttlSeconds > 0 THEN t + ttlSeconds * 1000 ELSE 0
    IN  IF Serializable(data) /\ JsonLength(data) > COMPRESSION_THRESHOLD
        THEN MapSet(c, key, [data |-> Gzip(data), ttl |-> expiresAt, compressed |-> TRUE])
        ELSE MapSet(c, key, [data |-> data, ttl |-> expiresAt, compressed |-> FALSE])

\* CacheHandler.set: the cache map after set(key, data, ttlSeconds).  When
\* JSON.stringify throws, the catch stores the value as it is.
CacheSet(c, key, data, ttlSeconds, t) ==
    IF ~Includes(key, "undefined") /\ ~Includes(key, "null")
    THEN LET expiresAt == IF ttlSeconds > 0 THEN t + ttlSeconds * 1000 ELSE 0
         IN  IF Serializable(data) /\ JsonLength(data) > COMPRESSION_THRESHOLD
             THEN MapSet(c, key, [data |-> Gzip(data), ttl |-> expiresAt, compressed |-> TRUE])
             ELSE MapSet(c, key, [data |-> data, ttl |-> expiresAt, compressed |-> FALSE])
    ELSE c

\* CacheHandler.set when Bun.gzipSync throws: the catch stores the value as
\* it is.
CacheSetGzipThrows(c, key, data, ttlSeconds, t) ==
    IF ~Includes(key, "undefined") /\ ~Includes(key, "null")
    THEN LET expiresAt == IF ttlSeconds > 0 THEN t + ttlSeconds * 1000 ELSE 0
         IN  MapSet(c, key, [data |-> data, ttl |-> expiresAt, compressed |-> FALSE])
    ELSE c

\* Expired with the comparison turned round.
ExpiredInverted(c, key, t) == Has(c, key) /\ c[key].ttl > 0 /\ c[key].ttl > t

\* CacheHandler.get evicts an entry whose ttl has passed.
Expired(c, key, t) == Has(c, key) /\ c[key].ttl > 0 /\ c[key].ttl < t

\* CacheHandler.get: whether get(key) returns a value.
CacheHit(c, key, t) == Has(c, key) /\ ~Expired(c, key, t)

\* CacheValue handing out what the map holds, compressed or not.
CacheValueAsStored(c, key) == c[key].data

\* CacheHandler.get: the value get(key) returns on a hit.
CacheValue(c, key) ==
    IF c[key].compressed THEN Gunzip(c[key].data) ELSE c[key].data

\* CacheHandler.get: the cache map after get(key).
CacheAfterGet(c, key, t) ==
    IF Expired(c, key, t) THEN MapDelete(c, key) ELSE c

\* CacheHandler.delete: the cache map after delete(key).
CacheDelete(c, key) == MapDelete(c, key)

\* CacheHandler.invalidateByPrefix: the cache map after the call.
InvalidateByPrefix(c, prefix) ==
    [k \in {x \in DOMAIN c : ~StartsWith(x, prefix)} |-> c[k]]

\* The identifiers the CacheManager file declares or imports.  Every
\* broadcast message is built as {..., source: parseInt(config.Server.NodeId)}
\* before the callback is called; reading an identifier the file does not
\* declare raises a ReferenceError.
CacheManagerScope == {"COMPRESSION_THRESHOLD", "CacheSyncMessage", "CacheHandler"}
ConfigInScope == "config" \in CacheManagerScope

\* parseInt(config.Server.NodeId as any)
NodeId == "config.Server.NodeId"

\* A CacheSyncMessage.
SyncMessage(action, key, data, expiresAt) ==
    [action |-> action, key |-> key, data |-> data, expiresAt |-> expiresAt,
     source |-> NodeId]

\* CacheHandler.set with the broadcast: the cache map after the call, the
\* messages handed to the callback, whether the call raised, and its result.
SetOutcome(c, hook, key, data, ttlSeconds, isInternal, t) ==
    LET valid == ~Includes(key, "undefined") /\ ~Includes(key, "null")
        expiresAt == IF ttlSeconds > 0 THEN t + ttlSeconds * 1000 ELSE 0
        tells == valid /\ hook /\ ~isInternal
    IN  [cache |-> CacheSet(c, key, data, ttlSeconds, t),
         sent |-> IF tells /\ ConfigInScope
                  THEN <<SyncMessage("set", key, data, expiresAt)>> ELSE <<>>,
         threw |-> tells /\ ~ConfigInScope,
         ret |-> data]

\* CacheHandler.delete with the broadcast, which comes before Map.delete.
DeleteOutcome(c, hook, key) ==
    IF hook /\ ~ConfigInScope
    THEN [cache |-> c, sent |-> <<>>, threw |-> TRUE, ret |-> FALSE]
    ELSE [cache |-> CacheDelete(c, key),
          sent |-> IF hook THEN <<SyncMessage("delete", key, <<>>, 0)>> ELSE <<>>,
          threw |-> FALSE,
          ret |-> Has(c, key)]

\* The invalidate messages of a set of keys, one per key.
RECURSIVE InvalidateMessages(_)
InvalidateMessages(keys) ==
    IF keys = {} THEN <<>>
    ELSE LET k == CHOOSE x \in keys : TRUE
         IN  <<SyncMessage("invalidate", k, <<>>, 0)>> \o InvalidateMessages(keys \ {k})

\* CacheHandler.invalidateByPrefix with the broadcast, which follows each
\* Map.delete.  The loop visits the keys in the Map's insertion order, which
\* this model does not keep: when the first broadcast raises, the key already
\* deleted is any one of the matching keys.
InvalidateOutcomes(c, hook, prefix) ==
    LET matching == {k \in DOMAIN c : StartsWith(k, prefix)}
    IN  IF hook /\ ~ConfigInScope /\ matching # {}
        THEN {[cache |-> MapDelete(c, k), sent |-> <<>>, threw |-> TRUE] : k \in matching}
        ELSE {[cache |-> InvalidateByPrefix(c, prefix),
               sent |-> IF hook THEN InvalidateMessages(matching) ELSE <<>>,
               threw |-> FALSE]}

\* timesVisited.get(key) ?? { incremental: 0 }
Visits(tv, key) == IF key \in DOMAIN tv THEN tv[key] ELSE [incremental |-> 0]

\* DynamicTTLOutcome counting the visit in every mode.
DynamicTTLCountsEveryMode(tv, key, mode) ==
    LET status == [incremental |-> Visits(tv, key).incremental + 1]
    IN  [timesVisited |-> MapSet(tv, key, status),
         ret |-> CASE mode = "immediate" -> 5 * 60 * 1000
                   [] mode = "short" -> 30 * 60 * 1000
                   [] mode = "medium" -> 2 * 60 * 60 * 1000
                   [] mode = "long" -> 6 * 60 * 60 * 1000
                   [] OTHER -> IF status.incremental > 5 THEN 30 * 60 * 1000
                               ELSE 2 * 60 * 60 * 1000]

\* CacheHandler.getDynamicTTL(key, mode): the visit counters after the call
\* and the milliseconds it returns.  In mode "dynamic" the counter is
\* incremented before it is tested.
DynamicTTLOutcome(tv, key, mode) ==
    IF mode # "dynamic"
    THEN [timesVisited |-> tv,
          ret |-> CASE mode = "immediate" -> 5 * 60 * 1000
                    [] mode = "short" -> 30 * 60 * 1000
                    [] mode = "medium" -> 2 * 60 * 60 * 1000
                    [] mode = "long" -> 6 * 60 * 60 * 1000]
    ELSE LET status == [incremental |-> Visits(tv, key).incremental + 1]
         IN  [timesVisited |-> MapSet(tv, key, status),
              ret |-> IF status.incremental > 5 THEN 30 * 60 * 1000
                      ELSE IF status.incremental > 0 THEN 2 * 60 * 60 * 1000
                      ELSE 6 * 60 * 60 * 1000]

\* The callback of startExpirationCheck: the cache map after a sweep.
SweepIntervalMs == 60000

\* Swept without the test that the expiry time is set.
SweptAlsoUnset(c, t) == [k \in {x \in DOMAIN c : ~(c[x].ttl < t)} |-> c[k]]

Swept(c, t) == [k \in {x \in DOMAIN c : ~(c[x].ttl > 0 /\ c[x].ttl < t)} |-> c[k]]

-----------------------------------------------------------------------------
(* The remote record store (Pocketbase), an external collaborator: what it *)
(* answers is its own choice.                                              *)

\* A request sent to the remote store.
Req(method, c, id, data) == [method |-> method, c |-> c, id |-> id, data |-> data]

\* A record as the remote store returns it.
RemoteRecord(id, data) ==
    Spread([id |-> id, created |-> "t0", updated |-> "t0"], data)

\* The answers of the remote store: a value, or an error with its status.
Ok(val) == [ok |-> TRUE, val |-> val, status |-> 200]
Fail(status) == [ok |-> FALSE, val |-> <<>>, status |-> status]
\* An error answering delete, whose value is a boolean.
FailBool(status) == [ok |-> FALSE, val |-> FALSE, status |-> status]

-----------------------------------------------------------------------------
(* DatabaseService, the coordinator.                                       *)

\* generateCacheKey: parts.filter(Boolean).join(":").
RECURSIVE TruthyStrings(_)
TruthyStrings(parts) ==
    IF parts = <<>> THEN <<>>
    ELSE IF Truthy(Head(parts))
         THEN <<PartToString(Head(parts))>> \o TruthyStrings(Tail(parts))
         ELSE TruthyStrings(Tail(parts))

generateCacheKey(parts) == Join(TruthyStrings(parts), ":")

\* getDynamicTTL with the tiers of the cache engine, in seconds.
getDynamicTTLEngineTiers(key, mode) ==
    CASE mode = "short" -> 30 * 60
      [] mode = "medium" -> 2 * 60 * 60
      [] mode = "long" -> 6 * 60 * 60

\* DatabaseService.getDynamicTTL(key, mode), in seconds.
getDynamicTTL(key, mode) ==
    CASE mode = "short" -> 10 * 60
      [] mode = "medium" -> 60 * 60
      [] mode = "long" -> 6 * 60 * 60

\* The key get() computes.
GetKey(c, id, expand) ==
    generateCacheKey(<<Str(c), Str("get"), Str(id), ExpandPart(expand)>>)

\* The options of list(): {page = 1, limit = 10, filter, sort, expand}.
DefaultTo(p, n) == IF p.t = "undefined" THEN Num(n) ELSE p

\* The key list() computes.
ListKey(c, o) ==
    generateCacheKey(<<Str(c), Str("list"), DefaultTo(o.page, 1), DefaultTo(o.limit, 10),
                       o.filter, o.sort, ExpandPart(o.expand)>>)

\* RecordKey without the operation tag.
RecordKeyNoTag(c, id) == generateCacheKey(<<Str(c), Str(id)>>)

\* The key update() and delete() remove.
RecordKey(c, id) == generateCacheKey(<<Str(c), Str("get"), Str(id)>>)

\* ListPrefix without the operation tag: every key of the collection.
CollectionPrefix(c) == generateCacheKey(<<Str(c)>>)

\* The prefix create(), update() and delete() invalidate.
ListPrefix(c) == generateCacheKey(<<Str(c), Str("list")>>)

\* A queued operation, as create(), update() and delete() push it.
CreateOp(c, data) == [action |-> "create", payload |-> [collection |-> c, data |-> data]]
UpdateOp(c, id, data) ==
    [action |-> "update", payload |-> [collection |-> c, id |-> id, data |-> data]]
DeleteOp(c, id) == [action |-> "delete", payload |-> [collection |-> c, id |-> id]]

\* The remote write the non-batch path of a queued operation sends.
WriteOf(op) ==
    CASE op.action = "create" -> Req("create", op.payload.collection, "", op.payload.data)
      [] op.action = "update" ->
            Req("update", op.payload.collection, op.payload.id, op.payload.data)
      [] op.action = "delete" -> Req("delete", op.payload.collection, op.payload.id, <<>>)

\* Enqueue putting the operation first (unshift for push).
EnqueueFront(q, op) == <<op>> \o q

\* this.batchQueue.push(op).
Enqueue(q, op) == Append(q, op)

\* What a call has returned.
RetNone == [kind |-> "none", val |-> <<>>]
RetVoid == [kind |-> "undefined", val |-> <<>>]
RetNull == [kind |-> "null", val |-> <<>>]
RetValue(v) == [kind |-> "value", val |-> v]
RetBool(b) == [kind |-> "bool", val |-> [bool |-> b]]
RetNumber(n) == [kind |-> "number", val |-> [number |-> n]]
RetError(e) == [kind |-> "error", val |-> [error |-> e]]

NoOptions ==
    [page |-> Undefined, limit |-> Undefined, filter |-> Undefined, sort |-> Undefined,
     expand |-> NoExpand]

\* A call of a DatabaseService method: the method, its arguments, its position
\* (pc), the position of saveChanges' loop (idx: the queued operations
\* dispatched so far), the remote requests it has sent, the cache keys it has
\* removed, the status of the last answer of the remote store (0: none yet),
\* and its result.
Call(op, c, id, data, flag, expand, options) ==
    [op |-> op, c |-> c, id |-> id, data |-> data, flag |-> flag, expand |-> expand,
     options |-> options, pc |-> "idle", idx |-> 0, calls |-> <<>>, removed |-> {},
     status |-> 0, ret |-> RetNone]

NoCall == Call("none", "", "", <<>>, FALSE, NoExpand, NoOptions)

\* A flow can start a call when it has none in flight (and the process lives).
Callable(f) == flows[f].pc \in {"idle", "returned", "raised"}

Returned(call, ret) == [call EXCEPT !.pc = "returned", !.ret = ret]
Raised(call, err) == [call EXCEPT !.pc = "raised", !.ret = RetError(err)]
Awaiting(call, req) == [call EXCEPT !.pc = "await", !.calls = Append(@, req)]
\* The call once the remote store has answered r.
Answered(call, r) == [call EXCEPT !.status = r.status]

-----------------------------------------------------------------------------
(* The state after construction (index.ts: new Cache(), new DatabaseService). *)

Flows == {"A"}

\* Date.now() when the process starts.
StartMs == 1000

\* The remote store left to answer as it chooses: no records followed, no
\* answer held ready.
AnyRemote == [store |-> <<>>, served |-> <<>>]

\* No CacheHandler method called yet.
NoEngineCall == [op |-> "none", key |-> "", data |-> <<>>, ret |-> RetNone]

\* index.ts registers no broadcast callback; the first sweep is due one
\* interval after the constructor ran.
Init ==
    /\ isBatchMode = FALSE
    /\ batchQueue = <<>>
    /\ cache = <<>>
    /\ now = StartMs
    /\ flows = [f \in Flows |-> NoCall]
    /\ broadcastCallback = FALSE
    /\ broadcasts = <<>>
    /\ timesVisited = <<>>
    /\ nextSweep = StartMs + SweepIntervalMs
    /\ written = <<>>
    /\ engine = NoEngineCall
    /\ remote = AnyRemote

SetFlow(f, call) ==
    flows' = [flows EXCEPT ![f] = [call EXCEPT !.removed = @ \cup (DOMAIN cache \ DOMAIN cache')]]

-----------------------------------------------------------------------------
(* setBatch                                                                 *)

\* SetBatch emptying the queue when it enables batch mode.
SetBatchClearsQueue(f, enable) ==
    /\ Callable(f)
    /\ isBatchMode' = enable
    /\ batchQueue' = IF enable THEN <<>> ELSE batchQueue
    /\ UNCHANGED <<cache, now, engineVars>>
    /\ SetFlow(f, Returned(Call("setBatch", "", "", <<>>, enable, NoExpand, NoOptions), RetVoid))

SetBatch(f, enable) ==
    /\ Callable(f)
    /\ isBatchMode' = enable
    /\ UNCHANGED <<batchQueue, cache, now, engineVars>>
    /\ SetFlow(f, Returned(Call("setBatch", "", "", <<>>, enable, NoExpand, NoOptions), RetVoid))

-----------------------------------------------------------------------------
(* get                                                                      *)

\* get() up to its await: a hit returns {...cached, cacheKey}.
Get(f, c, id, expand) ==
    LET call == Call("get", c, id, <<>>, FALSE, expand, NoOptions)
        cacheKey == GetKey(c, id, expand)
    IN  /\ Callable(f)
        /\ IF CacheHit(cache, cacheKey, now)
           THEN /\ cache' = cache
                /\ SetFlow(f, Returned(call,
                        RetValue(Spread(CacheValue(cache, cacheKey), [cacheKey |-> cacheKey]))))
           ELSE /\ cache' = CacheAfterGet(cache, cacheKey, now)
                /\ SetFlow(f, Awaiting(call, Req("getOne", c, id, <<>>)))
        /\ UNCHANGED <<isBatchMode, batchQueue, now, engineVars>>

\* GetReply without the test of error.status: every error is thrown.
GetReplyThrowsNotFound(f, r) ==
    LET call == Answered(flows[f], r)
        cacheKey == GetKey(call.c, call.id, call.expand)
    IN  /\ call.op = "get" /\ call.pc = "await"
        /\ IF r.ok
           THEN /\ cache' = CacheSet(cache, cacheKey, r.val,
                                     getDynamicTTL(cacheKey, "medium"), now)
                /\ SetFlow(f, Returned(call, RetValue(Spread(r.val, [cacheKey |-> cacheKey]))))
           ELSE /\ cache' = cache
                /\ SetFlow(f, Raised(call, "RemoteError"))
        /\ UNCHANGED <<isBatchMode, batchQueue, now, engineVars>>

\* get() after pb.collection(c).getOne answered r.
GetReply(f, r) ==
    LET call == Answered(flows[f], r)
        cacheKey == GetKey(call.c, call.id, call.expand)
    IN  /\ call.op = "get" /\ call.pc = "await"
        /\ IF r.ok
           THEN /\ cache' = CacheSet(cache, cacheKey, r.val,
                                     getDynamicTTL(cacheKey, "medium"), now)
                /\ SetFlow(f, Returned(call, RetValue(Spread(r.val, [cacheKey |-> cacheKey]))))
           ELSE /\ cache' = cache
                /\ IF r.status = 404
                   THEN SetFlow(f, Returned(call, RetNull))
                   ELSE SetFlow(f, Raised(call, "RemoteError"))
        /\ UNCHANGED <<isBatchMode, batchQueue, now, engineVars>>

-----------------------------------------------------------------------------
(* list                                                                     *)

\* list() up to its await: a hit returns the cached page.
List(f, c, options) ==
    LET call == Call("list", c, "", <<>>, FALSE, NoExpand, options)
        cacheKey == ListKey(c, options)
    IN  /\ Callable(f)
        /\ IF CacheHit(cache, cacheKey, now)
           THEN /\ cache' = cache
                /\ SetFlow(f, Returned(call, RetValue(CacheValue(cache, cacheKey))))
           ELSE /\ cache' = CacheAfterGet(cache, cacheKey, now)
                /\ SetFlow(f, Awaiting(call, Req("getList", c, "", <<>>)))
        /\ UNCHANGED <<isBatchMode, batchQueue, now, engineVars>>

\* The page list() assembles from the remote result.
Response(result, cacheKey) ==
    [items |-> result.items, totalItems |-> result.totalItems,
     totalPages |-> result.totalPages, page |-> result.page, limit |-> result.perPage,
     cacheKey |-> cacheKey]

\* list() after pb.collection(c).getList answered r; it has no try/catch.
ListReply(f, r) ==
    LET call == Answered(flows[f], r)
        cacheKey == ListKey(call.c, call.options)
    IN  /\ call.op = "list" /\ call.pc = "await"
        /\ IF r.ok
           THEN /\ cache' = CacheSet(cache, cacheKey, Response(r.val, cacheKey),
                                     getDynamicTTL(cacheKey, "medium"), now)
                /\ SetFlow(f, Returned(call, RetValue(Response(r.val, cacheKey))))
           ELSE /\ cache' = cache
                /\ SetFlow(f, Raised(call, "RemoteError"))
        /\ UNCHANGED <<isBatchMode, batchQueue, now, engineVars>>

-----------------------------------------------------------------------------
(* create                                                                   *)

\* new Date().toISOString().
ToISOString(t) == "T" \o NumToString(t)

\* The scaffold record create() builds in batch mode.
ScaffoldRecord(data, scaffoldId, t) ==
    Spread(data, [id |-> scaffoldId, created |-> ToISOString(t),
                  updated |-> ToISOString(t), scaffold |-> TRUE])

\* The cache after create() has prepended the scaffold to every cached list
\* of the collection: cache.get(key) (which evicts an expired entry), then
\* cache.set(key, existing, ttl) when the value has items.
PrependScaffold(c0, c, rec, t) ==
    LET feed(k) == StartsWith(k, c \o ":list")
        kept == {k \in DOMAIN c0 : ~(feed(k) /\ Expired(c0, k, t))}
        patched(k) == [CacheValue(c0, k) EXCEPT !.items = <<rec>> \o @]
    IN  [k \in kept |->
            IF feed(k) /\ "items" \in DOMAIN CacheValue(c0, k)
            THEN CacheSet(c0, k, patched(k), getDynamicTTL(k, "medium"), t)[k]
            ELSE c0[k]]

\* ScaffoldBranch without the useScaffold test.
ScaffoldBranchAnyCreate(batchMode, useScaffold) == batchMode

\* The test that sends create() down its scaffold branch.
ScaffoldBranch(batchMode, useScaffold) == batchMode /\ useScaffold

\* create() up to its await.  In batch mode with useScaffold it calls
\* this.cache.keys(), a method CacheHandler must have; calling a method the
\* class lacks raises a TypeError before anything is queued.
Create(f, c, data, useScaffold, scaffoldId) ==
    LET call == Call("create", c, "", data, useScaffold, NoExpand, NoOptions)
        scaffoldRecord == ScaffoldRecord(data, scaffoldId, now)
    IN  /\ Callable(f)
        /\ IF ScaffoldBranch(isBatchMode, useScaffold)
           THEN IF "keys" \in CacheHandlerMethods
                THEN /\ Len(batchQueue) < MaxQueue
                     /\ cache' = PrependScaffold(cache, c, scaffoldRecord, now)
                     /\ batchQueue' = Enqueue(batchQueue, CreateOp(c, data))
                     /\ SetFlow(f, Returned(call, RetValue(scaffoldRecord)))
                ELSE /\ UNCHANGED <<cache, batchQueue>>
                     /\ SetFlow(f, Raised(call, "TypeError"))
           ELSE /\ UNCHANGED <<cache, batchQueue>>
                /\ SetFlow(f, Awaiting(call, Req("create", c, "", data)))
        /\ UNCHANGED <<isBatchMode, now, engineVars>>

\* AfterWrite without the tests of the answer: the invalidation in any case.
AfterWriteUnconditional(c0, req, r) ==
    IF req.method = "create" THEN InvalidateByPrefix(c0, ListPrefix(req.c))
    ELSE InvalidateByPrefix(CacheDelete(c0, RecordKey(req.c, req.id)), ListPrefix(req.c))

\* The cache after the non-batch path of a write got answer r: create
\* invalidates the lists; update and delete (on a truthy result) also delete
\* the record's get entry.  An error skips the invalidation.
AfterWrite(c0, req, r) ==
    IF ~r.ok THEN c0
    ELSE CASE req.method = "create" -> InvalidateByPrefix(c0, ListPrefix(req.c))
           [] req.method = "update" ->
                InvalidateByPrefix(CacheDelete(c0, RecordKey(req.c, req.id)), ListPrefix(req.c))
           [] req.method = "delete" ->
                IF r.val
                THEN InvalidateByPrefix(CacheDelete(c0, RecordKey(req.c, req.id)),
                                        ListPrefix(req.c))
                ELSE c0

\* The request a call awaits.
Pending(call) == call.calls[Len(call.calls)]

\* create() after pb.collection(c).create answered r.
CreateReply(f, r) ==
    LET call == Answered(flows[f], r)
    IN  /\ call.op = "create" /\ call.pc = "await"
        /\ cache' = AfterWrite(cache, Pending(call), r)
        /\ IF r.ok
           THEN SetFlow(f, Returned(call, RetValue(r.val)))
           ELSE SetFlow(f, Raised(call, "RemoteError"))
        /\ UNCHANGED <<isBatchMode, batchQueue, now, engineVars>>

-----------------------------------------------------------------------------
(* update                                                                   *)

\* Update with batch mode private to the flow that turned it on: an update
\* of a flow goes to the remote store while another flow's setBatch(true) is
\* the one in force.
UpdatePerFlowBatch(f, c, id, data, expand) ==
    LET call == Call("update", c, id, data, FALSE, expand, NoOptions)
        mine == isBatchMode /\ ~\E g \in DOMAIN flows :
                    g # f /\ flows[g].op = "setBatch" /\ flows[g].flag
    IN  /\ Callable(f)
        /\ UNCHANGED <<isBatchMode, cache, now, engineVars>>
        /\ IF mine
           THEN /\ Len(batchQueue) < MaxQueue
                /\ batchQueue' = Enqueue(batchQueue, UpdateOp(c, id, data))
                /\ SetFlow(f, Returned(call,
                        RetValue(Spread([id |-> id, created |-> "", updated |-> ""], data))))
           ELSE /\ SetFlow(f, Awaiting(call, Req("update", c, id, data)))
                /\ UNCHANGED batchQueue

\* update() up to its await: in batch mode it queues and returns
\* {id, created: "", updated: "", ...data}.
Update(f, c, id, data, expand) ==
    LET call == Call("update", c, id, data, FALSE, expand, NoOptions)
    IN  /\ Callable(f)
        /\ UNCHANGED <<isBatchMode, cache, now, engineVars>>
        /\ IF isBatchMode
           THEN /\ Len(batchQueue) < MaxQueue
                /\ batchQueue' = Enqueue(batchQueue, UpdateOp(c, id, data))
                /\ SetFlow(f, Returned(call,
                        RetValue(Spread([id |-> id, created |-> "", updated |-> ""], data))))
           ELSE /\ SetFlow(f, Awaiting(call, Req("update", c, id, data)))
                /\ UNCHANGED batchQueue

\* UpdateReply invalidating in a "finally": also when the remote update failed.
UpdateReplyInvalidatesAnyway(f, r) ==
    LET call == Answered(flows[f], r)
    IN  /\ call.op = "update" /\ call.pc = "await"
        /\ cache' = AfterWrite(cache, Pending(call), Ok(<<>>))
        /\ IF r.ok
           THEN SetFlow(f, Returned(call, RetValue(r.val)))
           ELSE SetFlow(f, Raised(call, "RemoteError"))
        /\ UNCHANGED <<isBatchMode, batchQueue, now, engineVars>>

\* update() after pb.collection(c).update answered r.
UpdateReply(f, r) ==
    LET call == Answered(flows[f], r)
    IN  /\ call.op = "update" /\ call.pc = "await"
        /\ cache' = AfterWrite(cache, Pending(call), r)
        /\ IF r.ok
           THEN SetFlow(f, Returned(call, RetValue(r.val)))
           ELSE SetFlow(f, Raised(call, "RemoteError"))
        /\ UNCHANGED <<isBatchMode, batchQueue, now, engineVars>>

-----------------------------------------------------------------------------
(* delete                                                                   *)

\* delete() up to its await: in batch mode it queues and returns true.
Delete(f, c, id) ==
    LET call == Call("delete", c, id, <<>>, FALSE, NoExpand, NoOptions)
    IN  /\ Callable(f)
        /\ UNCHANGED <<isBatchMode, cache, now, engineVars>>
        /\ IF isBatchMode
           THEN /\ Len(batchQueue) < MaxQueue
                /\ batchQueue' = Enqueue(batchQueue, DeleteOp(c, id))
                /\ SetFlow(f, Returned(call, RetBool(TRUE)))
           ELSE /\ SetFlow(f, Awaiting(call, Req("delete", c, id, <<>>)))
                /\ UNCHANGED batchQueue

\* delete() after pb.collection(c).delete answered r.
DeleteReply(f, r) ==
    LET call == Answered(flows[f], r)
    IN  /\ call.op = "delete" /\ call.pc = "await"
        /\ cache' = AfterWrite(cache, Pending(call), r)
        /\ IF r.ok
           THEN SetFlow(f, Returned(call, RetBool(r.val)))
           ELSE SetFlow(f, Raised(call, "RemoteError"))
        /\ UNCHANGED <<isBatchMode, batchQueue, now, engineVars>>

-----------------------------------------------------------------------------
(* saveChanges                                                              *)

\* NextOp iterating from the end of the array.
NextOpFromEnd(q, idx) == q[Len(q) - idx]

\* The element the array iterator yields after idx elements.
NextOp(q, idx) == q[idx + 1]

\* One turn of "for (const op of this.batchQueue)" with call.idx operations
\* dispatched so far.  The iterator reads the array's length at every turn.
\*  - past the end: the queue is replaced by [] and batch mode is turned off;
\*  - create: this.create(collection, data, false) sends the remote create;
\*  - update, delete: this.update(...) / this.delete(...) test isBatchMode
\*    themselves: off, they send the remote write; on, they push the
\*    operation onto the queue being iterated and return at once.  A push
\*    onto a queue that already fills the memory ends the process.
Dispatch(f, call) ==
    IF call.idx >= Len(batchQueue)
    THEN /\ batchQueue' = <<>>
         /\ isBatchMode' = FALSE
         /\ SetFlow(f, Returned(call, RetVoid))
    ELSE LET op == NextOp(batchQueue, call.idx)
             next == [call EXCEPT !.idx = @ + 1]
         IN  IF op.action = "create" \/ ~isBatchMode
             THEN /\ SetFlow(f, Awaiting(next, WriteOf(op)))
                  /\ UNCHANGED <<batchQueue, isBatchMode>>
             ELSE IF Len(batchQueue) < MaxQueue
                  THEN /\ batchQueue' = Enqueue(batchQueue, op)
                       /\ SetFlow(f, [next EXCEPT !.pc = "flush"])
                       /\ UNCHANGED isBatchMode
                  ELSE /\ SetFlow(f, [next EXCEPT !.pc = "crashed"])
                       /\ UNCHANGED <<batchQueue, isBatchMode>>

\* saveChanges() up to its first await.
SaveChanges(f) ==
    /\ Callable(f)
    /\ UNCHANGED <<cache, now, engineVars>>
    /\ Dispatch(f, Call("saveChanges", "", "", <<>>, FALSE, NoExpand, NoOptions))

\* saveChanges() resumed after a queued update or delete returned at once.
FlushStep(f) ==
    /\ flows[f].op = "saveChanges" /\ flows[f].pc = "flush"
    /\ UNCHANGED <<cache, now, engineVars>>
    /\ Dispatch(f, flows[f])

\* saveChanges() after the remote store answered the write it awaits: the
\* write's own continuation runs (the invalidation), then the loop goes on.
\* An error leaves saveChanges by the await: nothing after the loop runs.
FlushReply(f, r) ==
    LET call == Answered(flows[f], r)
    IN  /\ call.op = "saveChanges" /\ call.pc = "await"
        /\ cache' = AfterWrite(cache, Pending(call), r)
        /\ IF r.ok
           THEN SetFlow(f, [call EXCEPT !.pc = "flush"])
           ELSE SetFlow(f, Raised(call, "RemoteError"))
        /\ UNCHANGED <<isBatchMode, batchQueue, now, engineVars>>

-----------------------------------------------------------------------------
(* The callers and the remote store.                                        *)

Collections == {"posts", "users"}
Ids == {"1"}
DataSet == {[title |-> "A"]}
Expands == {NoExpand}
OptionsSet == {NoOptions}
\* Math.random().toString(36).substring(2, 10)
ScaffoldIds == {"k3x9q2ab"}
\* The ids the remote store assigns.
ServerIds == {"r1"}

\* What getList answers.
ListResult(items) ==
    [items |-> items, totalItems |-> Len(items), totalPages |-> 1, page |-> 1, perPage |-> 10]

\* The answers the remote store can give to a request.
Replies(req) ==
    CASE req.method = "getOne" ->
            {Ok(RemoteRecord(req.id, d)) : d \in DataSet} \cup {Fail(404), Fail(500)}
      [] req.method = "getList" ->
            {Ok(ListResult(<<>>))}
            \cup {Ok(ListResult(<<RemoteRecord(id, d)>>)) : id \in Ids, d \in DataSet}
            \cup {Fail(500)}
      [] req.method = "create" ->
            {Ok(RemoteRecord(sid, req.data)) : sid \in ServerIds} \cup {Fail(500)}
      [] req.method = "update" -> {Ok(RemoteRecord(req.id, req.data)), Fail(404), Fail(500)}
      [] req.method = "delete" -> {Ok(TRUE), Ok(FALSE), FailBool(404)}

\* The answers a flow's pending request can get.
PendingReplies(f) ==
    IF flows[f].pc = "await" THEN Replies(Pending(flows[f])) ELSE {}

Next ==
    \E f \in Flows :
        \/ \E enable \in BOOLEAN : SetBatch(f, enable)
        \/ \E c \in Collections, id \in Ids, e \in Expands : Get(f, c, id, e)
        \/ \E c \in Collections, o \in OptionsSet : List(f, c, o)
        \/ \E c \in Collections, d \in DataSet, s \in BOOLEAN, sid \in ScaffoldIds :
                Create(f, c, d, s, sid)
        \/ \E c \in Collections, id \in Ids, d \in DataSet : Update(f, c, id, d, NoExpand)
        \/ \E c \in Collections, id \in Ids : Delete(f, c, id)
        \/ SaveChanges(f)
        \/ FlushStep(f)
        \/ \E r \in PendingReplies(f) : GetReply(f, r)
        \/ \E r \in PendingReplies(f) : ListReply(f, r)
        \/ \E r \in PendingReplies(f) : CreateReply(f, r)
        \/ \E r \in PendingReplies(f) : UpdateReply(f, r)
        \/ \E r \in PendingReplies(f) : DeleteReply(f, r)
        \/ \E r \in PendingReplies(f) : FlushReply(f, r)

Spec == Init /\ [][Next]_vars

-----------------------------------------------------------------------------
(* The same callers over a remote store whose every call returns: no        *)
(* request is answered by an error.  saveChanges' own steps are taken       *)
(* whenever they can be: the event loop runs a continuation that is ready,  *)
(* and the remote store answers.                                            *)

OkReplies(f) == {r \in PendingReplies(f) : r.ok}

LiveNext ==
    \E f \in Flows :
        \/ \E enable \in BOOLEAN : SetBatch(f, enable)
        \/ \E c \in Collections, d \in DataSet, s \in BOOLEAN, sid \in ScaffoldIds :
                Create(f, c, d, s, sid)
        \/ \E c \in Collections, id \in Ids, d \in DataSet : Update(f, c, id, d, NoExpand)
        \/ \E c \in Collections, id \in Ids : Delete(f, c, id)
        \/ SaveChanges(f)
        \/ FlushStep(f)
        \/ \E r \in OkReplies(f) : CreateReply(f, r)
        \/ \E r \in OkReplies(f) : UpdateReply(f, r)
        \/ \E r \in OkReplies(f) : DeleteReply(f, r)
        \/ \E r \in OkReplies(f) : FlushReply(f, r)

LiveSpec ==
    /\ Init
    /\ [][LiveNext]_vars
    /\ \A f \in Flows : WF_vars(FlushStep(f))
    /\ \A f \in Flows : WF_vars(\E r \in OkReplies(f) : FlushReply(f, r))

-----------------------------------------------------------------------------
(* Properties of saveChanges.                                               *)

\* The remote writes of a sequence of queued operations.
Writes(ops) == [i \in 1..Len(ops) |-> WriteOf(ops[i])]

\* saveChanges is running in flow f.
InFlush(f) == flows[f].op = "saveChanges" /\ flows[f].pc \in {"flush", "await"}

\* No list of collection c is cached.
NoListCached(c) == \A k \in DOMAIN cache : ~StartsWith(k, ListPrefix(c))

\* C1: saveChanges() dispatches every queued operation through the non-batch
\* path: at every point of the flush, each operation it has dispatched so far
\* has sent its remote write, once, and after a create or update has been
\* answered no list of its collection is left in the cache; batch mode being
\* still on when saveChanges() is called makes no difference.
C1_FlushDispatchesNonBatch ==
    \A f \in Flows :
        InFlush(f) =>
            /\ flows[f].calls = Writes(SubSeq(batchQueue, 1, flows[f].idx))
            /\ (flows[f].pc = "flush" /\ flows[f].idx > 0
                /\ batchQueue[flows[f].idx].action \in {"create", "update"})
               => NoListCached(batchQueue[flows[f].idx].payload.collection)

\* C2: with every remote call returning, a saveChanges() running in batch
\* mode eventually returns, and then the queue is empty and batch mode off.
C2_SaveChangesReturns ==
    \A f \in Flows :
        (InFlush(f) /\ isBatchMode)
            ~> (flows[f].op = "saveChanges" /\ flows[f].pc = "returned"
                /\ batchQueue = <<>> /\ ~isBatchMode)

\* a is b with some elements left out, the others in b's order.
RECURSIVE IsSubsequence(_, _)
IsSubsequence(a, b) ==
    IF a = <<>> THEN TRUE
    ELSE IF b = <<>> THEN FALSE
    ELSE IF Head(a) = Head(b) THEN IsSubsequence(Tail(a), Tail(b))
    ELSE IsSubsequence(a, Tail(b))

\* C3: the remote writes saveChanges() has sent are those of the queued
\* operations in the order they were queued: never a write before the write
\* of an operation queued earlier, and, when the operations take the remote
\* path, one write per operation with none merged, also for operations on the
\* same id.
C3_FlushKeepsOrder ==
    \A f \in Flows :
        InFlush(f) =>
            /\ IsSubsequence(flows[f].calls, Writes(SubSeq(batchQueue, 1, flows[f].idx)))
            /\ ~isBatchMode => flows[f].calls = Writes(SubSeq(batchQueue, 1, flows[f].idx))

\* C3 witness: a flush has sent an update and then a delete of the same id.
C3_Witness ==
    \E f \in Flows, c \in Collections, id \in Ids, d \in DataSet :
        /\ InFlush(f)
        /\ batchQueue = <<UpdateOp(c, id, d), DeleteOp(c, id)>>
        /\ flows[f].calls = <<Req("update", c, id, d), Req("delete", c, id, <<>>)>>

\* C4: whenever a saveChanges() call has ended, by returning or by raising,
\* the batch queue is empty and batch mode is off.
C4_SaveChangesEndsClean ==
    \A f \in Flows :
        (flows[f].op = "saveChanges" /\ flows[f].pc \in {"returned", "raised"})
            => (batchQueue = <<>> /\ ~isBatchMode)

-----------------------------------------------------------------------------
(* Properties of the batch-mode branches.                                   *)

\* This step is flow f calling method op.
Starts(f, op) == Callable(f) /\ flows'[f] # flows[f] /\ flows'[f].op = op

\* C5: in batch mode, create(collection, data, true) sends no remote
\* request, returns a record with a locally generated id and scaffold = true,
\* and appends exactly one create operation for (collection, data).
C5_ScaffoldCreateQueues ==
    [][\A f \in Flows :
        (Starts(f, "create") /\ isBatchMode /\ flows'[f].flag) =>
            /\ flows'[f].pc = "returned"
            /\ flows'[f].calls = <<>>
            /\ flows'[f].ret.kind = "value"
            /\ "scaffold" \in DOMAIN flows'[f].ret.val
            /\ flows'[f].ret.val.scaffold = TRUE
            /\ flows'[f].ret.val.id \in ScaffoldIds
            /\ batchQueue' = Append(batchQueue, CreateOp(flows'[f].c, flows'[f].data))
      ]_vars

\* C6: a batch-mode scaffold create on a collection leaves every list of that
\* collection cached before the call with the scaffold record first, the
\* former items after it in their order; every other cache entry is as it was.
C6_ScaffoldPrepended ==
    [][\A f \in Flows :
        (Starts(f, "create") /\ isBatchMode /\ flows'[f].flag) =>
            \A k \in DOMAIN cache :
                /\ k \in DOMAIN cache'
                /\ IF StartsWith(k, ListPrefix(flows'[f].c))
                   THEN /\ flows'[f].ret.kind = "value"
                        /\ CacheValue(cache', k).items
                              = <<flows'[f].ret.val>> \o CacheValue(cache, k).items
                   ELSE cache'[k] = cache[k]
      ]_vars

\* C7: in batch mode, update and delete each append exactly one operation,
\* send no remote request and leave the cache as it was; update returns a
\* record with the id and the supplied fields, delete returns true.
C7_BatchUpdateDeleteQueue ==
    [][\A f \in Flows :
        /\ (Starts(f, "update") /\ isBatchMode) =>
            /\ batchQueue' = Append(batchQueue,
                                UpdateOp(flows'[f].c, flows'[f].id, flows'[f].data))
            /\ cache' = cache
            /\ flows'[f].calls = <<>>
            /\ flows'[f].pc = "returned"
            /\ flows'[f].ret.kind = "value"
            /\ flows'[f].ret.val.id = flows'[f].id
            /\ \A fld \in DOMAIN flows'[f].data :
                    flows'[f].ret.val[fld] = flows'[f].data[fld]
        /\ (Starts(f, "delete") /\ isBatchMode) =>
            /\ batchQueue' = Append(batchQueue, DeleteOp(flows'[f].c, flows'[f].id))
            /\ cache' = cache
            /\ flows'[f].calls = <<>>
            /\ flows'[f].pc = "returned"
            /\ flows'[f].ret = RetBool(TRUE)
      ]_vars

\* C7 witness: in batch mode, over a cache that holds entries, an update and
\* then a delete have been queued and the delete has returned true.
C7_Witness ==
    \E f \in Flows, c \in Collections, id \in Ids, d \in DataSet :
        /\ isBatchMode
        /\ cache # <<>>
        /\ flows[f].op = "delete" /\ flows[f].pc = "returned"
        /\ flows[f].ret = RetBool(TRUE)
        /\ batchQueue = <<UpdateOp(c, id, d), DeleteOp(c, id)>>

IsPrefix(q, r) == Len(q) <= Len(r) /\ SubSeq(r, 1, Len(q)) = q

\* C9: setBatch changes the batch-mode flag and nothing else: the queue holds
\* the same operations in the same order after it; and a step that takes
\* operations out of the queue is the return of saveChanges.
C9_SetBatchKeepsQueue ==
    [][/\ \A f \in Flows :
            Starts(f, "setBatch") =>
                /\ batchQueue' = batchQueue
                /\ cache' = cache
                /\ isBatchMode' = flows'[f].flag
       /\ ~IsPrefix(batchQueue, batchQueue') =>
            \E f \in Flows : flows'[f].op = "saveChanges" /\ flows'[f].pc = "returned"
      ]_vars

\* C9 witness: batch mode has been enabled while the queue held operations.
C9_Witness ==
    \E f \in Flows :
        /\ flows[f].op = "setBatch" /\ flows[f].flag /\ flows[f].pc = "returned"
        /\ isBatchMode
        /\ Len(batchQueue) >= 2

-----------------------------------------------------------------------------
(* The callers that never enable batch mode: reads with and without expand, *)
(* two pages of every list, and the writes on their remote path.            *)

DirectExpands == {NoExpand, Expand(<<"author">>)}
DirectOptions == {NoOptions, [NoOptions EXCEPT !.page = Num(2)]}

DirectNext ==
    \E f \in Flows :
        \/ \E c \in Collections, id \in Ids, e \in DirectExpands : Get(f, c, id, e)
        \/ \E c \in Collections, o \in DirectOptions : List(f, c, o)
        \/ \E c \in Collections, d \in DataSet, s \in BOOLEAN, sid \in ScaffoldIds :
                Create(f, c, d, s, sid)
        \/ \E c \in Collections, id \in Ids, d \in DataSet : Update(f, c, id, d, NoExpand)
        \/ \E c \in Collections, id \in Ids : Delete(f, c, id)
        \/ \E r \in PendingReplies(f) : GetReply(f, r)
        \/ \E r \in PendingReplies(f) : ListReply(f, r)
        \/ \E r \in PendingReplies(f) : CreateReply(f, r)
        \/ \E r \in PendingReplies(f) : UpdateReply(f, r)
        \/ \E r \in PendingReplies(f) : DeleteReply(f, r)

DirectSpec == Init /\ [][DirectNext]_vars

-----------------------------------------------------------------------------
(* Properties of the non-batch writes.                                      *)

\* C10: once a non-batch update(collection, id, data) has returned, the
\* cache holds neither the entry get(collection, id) reads nor any list of
\* the collection: the next get(collection, id) and the next list of the
\* collection miss the cache.
C10_UpdateInvalidates ==
    \A f \in Flows :
        (flows[f].op = "update" /\ flows[f].pc = "returned" /\ flows[f].calls # <<>>) =>
            /\ ~Has(cache, GetKey(flows[f].c, flows[f].id, NoExpand))
            /\ NoListCached(flows[f].c)
            /\ \A o \in DirectOptions : ~CacheHit(cache, ListKey(flows[f].c, o), now)

\* C10 witness: an update has returned after removing the record's get entry
\* and two cached pages of its collection, and other entries are still cached.
C10_Witness ==
    \E f \in Flows :
        /\ flows[f].op = "update" /\ flows[f].pc = "returned"
        /\ Len(flows[f].calls) = 1
        /\ GetKey(flows[f].c, flows[f].id, NoExpand) \in flows[f].removed
        /\ \A o \in DirectOptions : ListKey(flows[f].c, o) \in flows[f].removed
        /\ cache # <<>>

\* What a call has ended with.
EndedWithBool(call, b) == call.pc = "returned" /\ call.ret.kind = "bool" /\ call.ret.val.bool = b
EndedWithNull(call) == call.pc = "returned" /\ call.ret.kind = "null"
EndedWithError(call, e) == call.pc = "raised" /\ call.ret.kind = "error" /\ call.ret.val.error = e

\* C11: the key that invalidates a record is the key that cached it: after a
\* successful non-batch update or delete of (collection, id), no entry that
\* get(collection, id, expand) cached is left, whatever the expand list.
C11_InvalidationKeyIsPopulationKey ==
    \A f \in Flows :
        (/\ flows[f].op \in {"update", "delete"}
         /\ flows[f].pc = "returned"
         /\ flows[f].calls # <<>>
         /\ flows[f].op = "delete" => EndedWithBool(flows[f], TRUE))
        => \A e \in DirectExpands : ~Has(cache, GetKey(flows[f].c, flows[f].id, e))

\* The keys of the lists of collection c that list() can cache.
ListKeys(c) == {ListKey(c, o) : o \in DirectOptions}

\* C12: a non-batch create sends one remote create and, once it is answered,
\* every cached list of the collection is gone while every other entry (the
\* get entries, the entries of other collections) is as it was.
C12_CreateInvalidatesLists ==
    [][\A f \in Flows :
        (flows[f].op = "create" /\ flows[f].pc = "await" /\ flows'[f].pc = "returned") =>
            /\ flows'[f].calls = <<Req("create", flows[f].c, "", flows[f].data)>>
            /\ DOMAIN cache' = DOMAIN cache \ ListKeys(flows[f].c)
            /\ \A k \in DOMAIN cache' : cache'[k] = cache[k]
      ]_vars

\* C12 witness: a create has returned after removing two cached pages of its
\* collection, and a get entry of the collection and a page of the other
\* collection are still cached.
C12_Witness ==
    \E f \in Flows, c \in Collections, id \in Ids :
        /\ flows[f].op = "create" /\ flows[f].pc = "returned"
        /\ flows[f].removed = ListKeys(flows[f].c)
        /\ Has(cache, GetKey(flows[f].c, id, NoExpand))
        /\ c # flows[f].c /\ Has(cache, ListKey(c, NoOptions))

\* C13: a non-batch delete that the remote store answers with a falsy result
\* or an error removes no cache entry and emits no broadcast; it returns
\* false on the falsy result and raises on the error.
C13_FailedDeleteLeavesCache ==
    [][\A f \in Flows :
        (/\ flows[f].op = "delete" /\ flows[f].pc = "await"
         /\ flows'[f].pc # "await"
         /\ ~EndedWithBool(flows'[f], TRUE)) =>
            /\ cache' = cache
            /\ broadcasts' = broadcasts
            /\ IF flows'[f].status = 200
               THEN EndedWithBool(flows'[f], FALSE)
               ELSE EndedWithError(flows'[f], "RemoteError")
      ]_vars

\* C13 witness: a delete has returned false while the record's get entry
\* and a list of its collection are cached.
C13_Witness ==
    \E f \in Flows :
        /\ flows[f].op = "delete" /\ EndedWithBool(flows[f], FALSE)
        /\ Has(cache, RecordKey(flows[f].c, flows[f].id))
        /\ Has(cache, ListKey(flows[f].c, NoOptions))

\* C14: a get that missed the cache returns null, without raising, when the
\* remote store answers 404, and raises the remote error on any other
\* failure; either way it sends no second request and stores nothing.
C14_GetNotFoundIsNull ==
    [][\A f \in Flows :
        (/\ flows[f].op = "get" /\ flows[f].pc = "await"
         /\ flows'[f].pc # "await"
         /\ flows'[f].status # 200) =>
            /\ cache' = cache
            /\ flows'[f].calls = flows[f].calls
            /\ IF flows'[f].status = 404
               THEN EndedWithNull(flows'[f])
               ELSE EndedWithError(flows'[f], "RemoteError")
      ]_vars

\* C14 witness: a get with an expand list has returned null on a 404 while
\* other entries are cached.
C14_Witness ==
    \E f \in Flows :
        /\ flows[f].op = "get" /\ EndedWithNull(flows[f])
        /\ flows[f].expand.some
        /\ flows[f].status = 404
        /\ cache # <<>>

\* C15: when the remote store fails during a non-batch create or update, the
\* call raises the error, sends no further request, and the cache is as it
\* was before the answer.
C15_FailedWriteLeavesCache ==
    [][\A f \in Flows :
        (/\ flows[f].op \in {"create", "update"} /\ flows[f].pc = "await"
         /\ flows'[f].pc # "await"
         /\ flows'[f].status # 200) =>
            /\ EndedWithError(flows'[f], "RemoteError")
            /\ flows'[f].calls = flows[f].calls
            /\ cache' = cache
      ]_vars

\* C15 witness: an update has raised on a remote failure while the record's
\* get entry and a list of its collection are cached.
C15_Witness ==
    \E f \in Flows :
        /\ flows[f].op = "update" /\ flows[f].pc = "raised"
        /\ flows[f].status = 500
        /\ Len(flows[f].calls) = 1
        /\ Has(cache, RecordKey(flows[f].c, flows[f].id))
        /\ Has(cache, ListKey(flows[f].c, NoOptions))

-----------------------------------------------------------------------------
(* The readers: get with and without expand, and list over two pages and    *)
(* over a filter on an empty field, as Pocketbase writes it.                *)

ReadOptions == DirectOptions \cup {[NoOptions EXCEPT !.filter = Str("deleted = null")]}

ReadNext ==
    \E f \in Flows :
        \/ \E c \in Collections, id \in Ids, e \in DirectExpands : Get(f, c, id, e)
        \/ \E c \in Collections, o \in ReadOptions : List(f, c, o)
        \/ \E r \in PendingReplies(f) : GetReply(f, r)
        \/ \E r \in PendingReplies(f) : ListReply(f, r)

ReadSpec == Init /\ [][ReadNext]_vars

\* The cache key a get or list call derives.
KeyOf(call) ==
    IF call.op = "get" THEN GetKey(call.c, call.id, call.expand)
    ELSE ListKey(call.c, call.options)

\* What a get or list call returns from the cached value v under key k.
ServedFrom(call, v, k) == IF call.op = "get" THEN Spread(v, [cacheKey |-> k]) ELSE v

\* Two calls are the same read.
SameRead(a, b) ==
    /\ a.op = b.op /\ a.c = b.c /\ a.id = b.id
    /\ a.expand = b.expand /\ a.options = b.options

\* This step is flow f calling get or list.
StartsRead(f) == Callable(f) /\ flows'[f].op \in {"get", "list"}

\* C16: a get or list called while the cache holds an unexpired entry under
\* its key returns the cached value and sends no remote request; and a get
\* or list repeated right after the same call missed the cache and returned
\* the remote store's value sends no remote request either.
C16_HitMakesNoRemoteCall ==
    [][\A f \in Flows :
        /\ (StartsRead(f) /\ CacheHit(cache, KeyOf(flows'[f]), now)) =>
                /\ flows'[f].pc = "returned"
                /\ flows'[f].calls = <<>>
                /\ flows'[f].ret.kind = "value"
                /\ flows'[f].ret.val
                      = ServedFrom(flows'[f], CacheValue(cache, KeyOf(flows'[f])), KeyOf(flows'[f]))
        /\ (/\ StartsRead(f)
            /\ SameRead(flows[f], flows'[f])
            /\ flows[f].pc = "returned" /\ flows[f].ret.kind = "value"
            /\ Len(flows[f].calls) = 1) =>
                /\ flows'[f].pc = "returned"
                /\ flows'[f].calls = <<>>
      ]_vars

\* The first half of C16 alone: a hit is served from the cache.
C16_HitServed ==
    [][\A f \in Flows :
        (StartsRead(f) /\ CacheHit(cache, KeyOf(flows'[f]), now)) =>
            /\ flows'[f].pc = "returned"
            /\ flows'[f].calls = <<>>
      ]_vars

-----------------------------------------------------------------------------
(* The cache engine on its own: CacheHandler under any caller of its public *)
(* methods, with the clock advancing and the expiration sweep running.      *)

\* The clock advances by TickMs, MaxTicks times at most.
TickMs == 30000
MaxTicks == 3

EngineKeys == {"users:list:1", "users:get:1", "users:get:undefined", "posts:get:null"}
SmallRecord == [id |-> "1", size |-> COMPRESSION_THRESHOLD]
LargeRecord == [id |-> "2", size |-> COMPRESSION_THRESHOLD + 1]
EngineValues == {SmallRecord, LargeRecord}
TtlSeconds == {0, 60}
Prefixes == {"users:list", "users"}

\* A call of a CacheHandler method and its result.
EngineCall(op, key, data, ret) == [op |-> op, key |-> key, data |-> data, ret |-> ret]

\* setBroadcastCallback(callback)
SetBroadcastCallback ==
    /\ broadcastCallback' = TRUE
    /\ engine' = EngineCall("setBroadcastCallback", "", <<>>, RetVoid)
    /\ UNCHANGED <<remote, isBatchMode, batchQueue, cache, now, flows,
                   broadcasts, timesVisited, nextSweep, written>>

\* set(key, data, ttlSeconds, isInternal)
CacheSetCall(key, data, ttlSeconds, isInternal) ==
    LET o == SetOutcome(cache, broadcastCallback, key, data, ttlSeconds, isInternal, now)
    IN  /\ cache' = o.cache
        /\ broadcasts' = broadcasts \o o.sent
        /\ written' = IF Has(o.cache, key)
                      THEN MapSet(written, key, [data |-> data, at |-> now, ttl |-> ttlSeconds])
                      ELSE written
        /\ engine' = EngineCall("set", key, data,
                                IF o.threw THEN RetError("ReferenceError") ELSE RetValue(o.ret))
                      @@ [isInternal |-> isInternal]
        /\ UNCHANGED <<remote, isBatchMode, batchQueue, now, flows,
                       broadcastCallback, timesVisited, nextSweep>>

\* get(key)
CacheGetCall(key) ==
    /\ cache' = CacheAfterGet(cache, key, now)
    /\ engine' = EngineCall("get", key, <<>>,
                            IF CacheHit(cache, key, now)
                            THEN RetValue(CacheValue(cache, key)) ELSE RetNull)
    /\ UNCHANGED <<remote, isBatchMode, batchQueue, now, flows,
                   broadcastCallback, broadcasts, timesVisited, nextSweep, written>>

\* delete(key)
CacheDeleteCall(key) ==
    LET o == DeleteOutcome(cache, broadcastCallback, key)
    IN  /\ cache' = o.cache
        /\ broadcasts' = broadcasts \o o.sent
        /\ written' = IF o.threw \/ ~Has(written, key) THEN written ELSE MapDelete(written, key)
        /\ engine' = EngineCall("delete", key, <<>>,
                                IF o.threw THEN RetError("ReferenceError") ELSE RetBool(o.ret))
        /\ UNCHANGED <<remote, isBatchMode, batchQueue, now, flows,
                       broadcastCallback, timesVisited, nextSweep>>

\* invalidateByPrefix(prefix)
InvalidateCall(prefix) ==
    \E o \in InvalidateOutcomes(cache, broadcastCallback, prefix) :
        /\ cache' = o.cache
        /\ broadcasts' = broadcasts \o o.sent
        /\ written' = [k \in DOMAIN written \ (DOMAIN cache \ DOMAIN o.cache) |-> written[k]]
        /\ engine' = EngineCall("invalidateByPrefix", prefix, <<>>,
                                IF o.threw THEN RetError("ReferenceError") ELSE RetVoid)
        /\ UNCHANGED <<remote, isBatchMode, batchQueue, now, flows,
                       broadcastCallback, timesVisited, nextSweep>>

\* The interval callback of startExpirationCheck, when it is due.
Sweep ==
    /\ now >= nextSweep
    /\ cache' = Swept(cache, now)
    /\ nextSweep' = nextSweep + SweepIntervalMs
    /\ UNCHANGED <<remote, isBatchMode, batchQueue, now, flows,
                   broadcastCallback, broadcasts, timesVisited, written, engine>>

\* Time passes.
Tick ==
    /\ now + TickMs <= StartMs + MaxTicks * TickMs
    /\ now' = now + TickMs
    /\ UNCHANGED <<isBatchMode, batchQueue, cache, flows, engineVars>>

EngineNext ==
    \/ SetBroadcastCallback
    \/ \E k \in EngineKeys, v \in EngineValues, ttl \in TtlSeconds, i \in BOOLEAN :
            CacheSetCall(k, v, ttl, i)
    \/ \E k \in EngineKeys : CacheGetCall(k)
    \/ \E k \in EngineKeys : CacheDeleteCall(k)
    \/ \E p \in Prefixes : InvalidateCall(p)
    \/ Sweep
    \/ Tick

EngineSpec == Init /\ [][EngineNext]_vars

-----------------------------------------------------------------------------
(* Properties of the cache engine.                                          *)

\* This step is a call of CacheHandler method op (the sweep and the clock
\* leave the record of the last call as it is).
EngineCalls(op) == engine'.op = op /\ now' = now /\ nextSweep' = nextSweep

\* C17: after set(key, value, ttl) with ttl > 0 and no later set, delete or
\* invalidation of the key, get(key) returns value at every time before
\* ttl seconds have passed and absent at every time after, whether or not
\* the sweep has run in between.
C17_EntryLivesForTtl ==
    [][(/\ EngineCalls("get")
        /\ Has(written, engine'.key)
        /\ written[engine'.key].ttl > 0) =>
            LET w == written[engine'.key]
                expiry == w.at + w.ttl * 1000
            IN  /\ now < expiry =>
                        engine'.ret.kind = "value" /\ engine'.ret.val = w.data
                /\ now > expiry => engine'.ret.kind = "null"
      ]_vars

\* C17 witness: a get has returned absent for an entry set with ttl > 0 whose
\* ttl has passed, and another entry set with ttl > 0 is still cached.
C17_Witness ==
    /\ engine.op = "get" /\ engine.ret.kind = "null"
    /\ Has(written, engine.key)
    /\ written[engine.key].ttl > 0
    /\ written[engine.key].at + written[engine.key].ttl * 1000 < now
    /\ \E k \in DOMAIN cache : cache[k].ttl > now

\* A key the cache refuses.
Refused(key) == Includes(key, "undefined") \/ Includes(key, "null")

\* C18: no stored key contains "undefined" or "null": set on such a key
\* stores nothing and returns the value it was given, and get on such a key
\* returns absent, after any sequence of operations.
C18_NoRefusedKeyStored ==
    /\ \A k \in DOMAIN cache : ~Refused(k)
    /\ (engine.op = "set" /\ Refused(engine.key)) =>
            engine.ret.kind = "value" /\ engine.ret.val = engine.data
    /\ (engine.op = "get" /\ Refused(engine.key)) => engine.ret.kind = "null"

\* C18 witness: with a broadcast callback registered and entries cached, a
\* set on a key containing "null" has returned its value.
C18_Witness ==
    /\ engine.op = "set" /\ Includes(engine.key, "null")
    /\ engine.ret.kind = "value"
    /\ broadcastCallback
    /\ cache # <<>>

\* C20: invalidateByPrefix(prefix) removes exactly the entries whose key
\* starts with prefix and leaves the others as they were; with a broadcast
\* callback registered, the callback is called once per removed key with an
\* invalidate message naming the key, and not at all when no key matches.
C20_InvalidateByPrefixExact ==
    [][EngineCalls("invalidateByPrefix") =>
        LET matching == {k \in DOMAIN cache : StartsWith(k, engine'.key)}
            new == SubSeq(broadcasts', Len(broadcasts) + 1, Len(broadcasts'))
        IN  /\ DOMAIN cache' = DOMAIN cache \ matching
            /\ \A k \in DOMAIN cache' : cache'[k] = cache[k]
            /\ SubSeq(broadcasts', 1, Len(broadcasts)) = broadcasts
            /\ IF broadcastCallback
               THEN /\ Len(new) = Cardinality(matching)
                    /\ \A k \in matching :
                            \E i \in 1..Len(new) :
                                new[i].action = "invalidate" /\ new[i].key = k
               ELSE new = <<>>
      ]_vars

-----------------------------------------------------------------------------
(* The callers of getDynamicTTL.                                            *)

\* The visits of one key the model counts.
MaxVisits == 8

VisitKeys == {"users:get:1", "posts:list:1:10"}
Modes == {"immediate", "short", "medium", "long", "dynamic"}

\* getDynamicTTL(key, mode)
GetDynamicTTLCall(key, mode) ==
    LET o == DynamicTTLOutcome(timesVisited, key, mode)
    IN  /\ Visits(timesVisited, key).incremental < MaxVisits
        /\ timesVisited' = o.timesVisited
        /\ engine' = EngineCall("getDynamicTTL", key, [mode |-> mode], RetNumber(o.ret))
        /\ UNCHANGED <<remote, isBatchMode, batchQueue, cache, now, flows,
                       broadcastCallback, broadcasts, nextSweep, written>>

VisitNext ==
    \/ \E k \in VisitKeys, mode \in Modes : GetDynamicTTLCall(k, mode)
    \/ \E k \in VisitKeys : CacheSetCall(k, SmallRecord, 0, TRUE)
    \/ \E k \in VisitKeys : CacheGetCall(k)
    \/ \E k \in VisitKeys : CacheDeleteCall(k)
    \/ \E p \in Prefixes : InvalidateCall(p)

VisitSpec == Init /\ [][VisitNext]_vars

\* Durations in milliseconds.
Minutes(n) == n * 60 * 1000
Hours(n) == n * 60 * 60 * 1000

\* C19: for a key never passed before, the successive calls
\* getDynamicTTL(key, "dynamic") return 6 hours on the 1st call, 2 hours on
\* calls 2 to 6, and 30 minutes on the 7th and every later call.
C19_DynamicTtlTiers ==
    [][(EngineCalls("getDynamicTTL") /\ engine'.data.mode = "dynamic") =>
        LET nth == Visits(timesVisited, engine'.key).incremental + 1
        IN  engine'.ret.val.number = IF nth = 1 THEN Hours(6)
                                     ELSE IF nth <= 6 THEN Hours(2)
                                     ELSE Minutes(30)
      ]_vars

\* The messages this step has handed to the broadcast callback.
NewBroadcasts == SubSeq(broadcasts', Len(broadcasts) + 1, Len(broadcasts'))

\* C21: delete(key) leaves no entry under key and returns true exactly when
\* one was stored; with a broadcast callback registered, every call, also
\* one that finds no entry, hands the callback exactly one delete message
\* for key.
C21_DeleteRemovesAndTells ==
    [][EngineCalls("delete") =>
        /\ ~Has(cache', engine'.key)
        /\ engine'.ret.kind = "bool"
        /\ engine'.ret.val.bool = Has(cache, engine'.key)
        /\ SubSeq(broadcasts', 1, Len(broadcasts)) = broadcasts
        /\ IF broadcastCallback
           THEN /\ Len(NewBroadcasts) = 1
                /\ NewBroadcasts[1].action = "delete"
                /\ NewBroadcasts[1].key = engine'.key
           ELSE NewBroadcasts = <<>>
      ]_vars

\* C22: with a broadcast callback registered, set on a valid key stores the
\* entry and hands the callback exactly one set message with this process's
\* node identifier when isInternal is false, and none when it is true.
C22_SetTellsUnlessInternal ==
    [][(EngineCalls("set") /\ broadcastCallback /\ ~Refused(engine'.key)) =>
        /\ Has(cache', engine'.key)
        /\ CacheValue(cache', engine'.key) = engine'.data
        /\ SubSeq(broadcasts', 1, Len(broadcasts)) = broadcasts
        /\ IF engine'.isInternal
           THEN NewBroadcasts = <<>>
           ELSE /\ Len(NewBroadcasts) = 1
                /\ NewBroadcasts[1].action = "set"
                /\ NewBroadcasts[1].key = engine'.key
                /\ NewBroadcasts[1].source = NodeId
      ]_vars

C24_CompressionRoundTrip ==
    [][\A k \in DOMAIN written :
         (EngineCalls("get") /\ engine'.key = k /\ written[k].ttl = 0) =>
            /\ Has(cache, k)
            /\ cache[k].compressed = (JsonLength(written[k].data) > COMPRESSION_THRESHOLD)
            /\ cache[k].compressed => cache[k].data # written[k].data
            /\ engine'.ret.kind = "value"
            /\ engine'.ret.val = written[k].data
      ]_vars

C24_Witness ==
    /\ engine.op = "get"
    /\ Has(written, engine.key)
    /\ written[engine.key].ttl = 0
    /\ written[engine.key].data = LargeRecord
    /\ Has(cache, engine.key)
    /\ cache[engine.key].compressed
    /\ engine.ret.kind = "value"
    /\ engine.ret.val = LargeRecord

\* C25 as stated: every entry a get or list miss of the coordinator has put
\* into the cache expires 2 hours after it was populated, the medium tier of
\* the cache engine.
C25_PopulatedForTwoHours ==
    \A k \in DOMAIN cache : cache[k].ttl = now + Hours(2)

\* C25 amended: every entry a get or list miss of the coordinator has put
\* into the cache expires 1 hour after it was populated, the medium tier of
\* the coordinator's own getDynamicTTL, which answers in seconds as set
\* expects.
C25_PopulatedForOneHour ==
    \A k \in DOMAIN cache : cache[k].ttl = now + Hours(1)

C25_Witness ==
    \E f \in Flows :
        /\ flows[f].op \in {"get", "list"}
        /\ flows[f].pc = "returned"
        /\ flows[f].calls # <<>>
        /\ Has(cache, KeyOf(flows[f]))
        /\ cache[KeyOf(flows[f])].ttl = now + 3600000

\* The cached list under key k holds a scaffold record.
HoldsScaffold(c, k) ==
    /\ Has(c, k)
    /\ "items" \in DOMAIN CacheValue(c, k)
    /\ \E i \in DOMAIN CacheValue(c, k).items :
            "scaffold" \in DOMAIN CacheValue(c, k).items[i]

-----------------------------------------------------------------------------
(* Two request handlers on the one DatabaseService of index.ts.             *)

\* index.ts hands the same db to every routeHandler call; two requests in
\* flight are two flows on it.
RequestFlows == {"A", "B"}
SharedCollections == {"posts"}

SharedInit ==
    /\ isBatchMode = FALSE
    /\ batchQueue = <<>>
    /\ cache = <<>>
    /\ now = StartMs
    /\ flows = [f \in RequestFlows |-> NoCall]
    /\ broadcastCallback = FALSE
    /\ broadcasts = <<>>
    /\ timesVisited = <<>>
    /\ nextSweep = StartMs + SweepIntervalMs
    /\ written = <<>>
    /\ engine = NoEngineCall
    /\ remote = AnyRemote

SharedNext ==
    \E f \in RequestFlows :
        \/ \E enable \in BOOLEAN : SetBatch(f, enable)
        \/ \E c \in SharedCollections, id \in Ids, d \in DataSet : Update(f, c, id, d, NoExpand)
        \/ \E c \in SharedCollections, id \in Ids : Delete(f, c, id)
        \/ SaveChanges(f)
        \/ FlushStep(f)
        \/ \E r \in PendingReplies(f) : UpdateReply(f, r)
        \/ \E r \in PendingReplies(f) : DeleteReply(f, r)
        \/ \E r \in PendingReplies(f) : FlushReply(f, r)

SharedSpec == SharedInit /\ [][SharedNext]_vars

\* C27: batch mode is one flag of the instance: while the setBatch(true) of a
\* flow is in force and no saveChanges() has ended it, an update or delete of
\* another flow is queued and answered with a synthesized result, and sends
\* no remote write.
C27_BatchModeIsShared ==
    [][\A f \in RequestFlows, g \in RequestFlows :
        (/\ f # g
         /\ isBatchMode
         /\ flows[g].op = "setBatch" /\ flows[g].flag /\ flows[g].pc = "returned") =>
            /\ Starts(f, "update") =>
                /\ batchQueue' = Append(batchQueue,
                                    UpdateOp(flows'[f].c, flows'[f].id, flows'[f].data))
                /\ flows'[f].calls = <<>>
                /\ flows'[f].pc = "returned"
                /\ flows'[f].ret.kind = "value"
                /\ flows'[f].ret.val.id = flows'[f].id
                /\ flows'[f].ret.val.created = ""
            /\ Starts(f, "delete") =>
                /\ batchQueue' = Append(batchQueue, DeleteOp(flows'[f].c, flows'[f].id))
                /\ flows'[f].calls = <<>>
                /\ flows'[f].pc = "returned"
                /\ EndedWithBool(flows'[f], TRUE)
      ]_vars

C27_Witness ==
    /\ isBatchMode
    /\ flows["A"].op = "setBatch" /\ flows["A"].flag /\ flows["A"].pc = "returned"
    /\ flows["B"].op = "update" /\ flows["B"].pc = "returned"
    /\ flows["B"].calls = <<>>
    /\ batchQueue = <<UpdateOp(flows["B"].c, flows["B"].id, flows["B"].data)>>

\* This step is a run of the background sweep.
Sweeps == nextSweep' # nextSweep

\* This step overwrites, deletes or invalidates: set or delete on key k, or
\* any invalidateByPrefix.
Rewrites(k) ==
    \/ (EngineCalls("set") \/ EngineCalls("delete")) /\ engine'.key = k
    \/ EngineCalls("invalidateByPrefix")

\* C28: a run of the sweep removes exactly the entries whose expiresAt is
\* nonzero and in the past and leaves the others as they are; an entry with
\* expiresAt 0 is removed or changed by no step other than a set or delete
\* of its key or an invalidation, and get returns its value.
C28_SweepRemovesExpiredOnly ==
    [][/\ Sweeps =>
            /\ DOMAIN cache \ DOMAIN cache'
                    = {k \in DOMAIN cache : cache[k].ttl # 0 /\ cache[k].ttl < now}
            /\ \A k \in DOMAIN cache' : k \in DOMAIN cache /\ cache'[k] = cache[k]
       /\ \A k \in DOMAIN cache :
            cache[k].ttl = 0 =>
                /\ ~Rewrites(k) => (Has(cache', k) /\ cache'[k] = cache[k])
                /\ (EngineCalls("get") /\ engine'.key = k) => engine'.ret.kind = "value"
      ]_vars

C28_Witness ==
    /\ nextSweep > StartMs + SweepIntervalMs
    /\ engine.op = "set"
    /\ Has(written, engine.key)
    /\ written[engine.key].ttl > 0
    /\ ~Has(cache, engine.key)
    /\ \E j \in DOMAIN cache : cache[j].ttl = 0

\* C29: getDynamicTTL in mode immediate, short, medium or long returns
\* 5 minutes, 30 minutes, 2 hours or 6 hours in milliseconds and leaves every
\* visit counter as it was; in mode dynamic it adds exactly one to the
\* counter of its key and leaves the others; no step decreases a counter.
C29_FixedModesAndCounters ==
    [][/\ \A k \in DOMAIN timesVisited :
            Visits(timesVisited', k).incremental >= timesVisited[k].incremental
       /\ EngineCalls("getDynamicTTL") =>
            IF engine'.data.mode = "dynamic"
            THEN /\ Visits(timesVisited', engine'.key).incremental
                        = Visits(timesVisited, engine'.key).incremental + 1
                 /\ \A k \in (DOMAIN timesVisited \cup DOMAIN timesVisited') \ {engine'.key} :
                        Visits(timesVisited', k) = Visits(timesVisited, k)
            ELSE /\ timesVisited' = timesVisited
                 /\ engine'.ret.kind = "number"
                 /\ engine'.ret.val.number =
                        CASE engine'.data.mode = "immediate" -> Minutes(5)
                          [] engine'.data.mode = "short" -> Minutes(30)
                          [] engine'.data.mode = "medium" -> Hours(2)
                          [] engine'.data.mode = "long" -> Hours(6)
       /\ (~EngineCalls("getDynamicTTL")) => timesVisited' = timesVisited
      ]_vars

C29_Witness ==
    /\ engine.op = "getDynamicTTL"
    /\ engine.data.mode = "long"
    /\ engine.ret.val.number = 21600000
    /\ Visits(timesVisited, engine.key).incremental = 2
    /\ \E k \in VisitKeys : Visits(timesVisited, k).incremental = 0

-----------------------------------------------------------------------------
(* The cache engine when serializing, compressing or decoding fails.        *)

FaultKeys == {"users:get:1", "posts:list:1"}

\* An object that refers to itself.
CyclicRecord == [id |-> "3", cyclic |-> TRUE]
FaultValues == {SmallRecord, LargeRecord, CyclicRecord}

\* set(key, data, 0, isInternal) with Bun.gzipSync throwing: it is called
\* for a value that serializes to more than the threshold.
GzipThrowsSetCall(key, data, isInternal) ==
    LET tells == broadcastCallback /\ ~isInternal
    IN  /\ Serializable(data)
        /\ JsonLength(data) > COMPRESSION_THRESHOLD
        /\ cache' = CacheSetGzipThrows(cache, key, data, 0, now)
        /\ written' = MapSet(written, key, [data |-> data, at |-> now, ttl |-> 0])
        /\ engine' = EngineCall("set", key, data,
                                IF tells /\ ~ConfigInScope
                                THEN RetError("ReferenceError") ELSE RetValue(data))
                      @@ [isInternal |-> isInternal, failed |-> "gzip"]
        /\ broadcasts' = IF tells /\ ConfigInScope
                         THEN Append(broadcasts, SyncMessage("set", key, data, 0))
                         ELSE broadcasts
        /\ UNCHANGED <<remote, isBatchMode, batchQueue, now, flows,
                       broadcastCallback, timesVisited, nextSweep>>

\* get(key) with Bun.gunzipSync or JSON.parse throwing on a compressed
\* entry: the catch deletes the entry and returns null.
DecodeThrowsGetCall(key) ==
    /\ CacheHit(cache, key, now)
    /\ cache[key].compressed
    /\ cache' = MapDelete(cache, key)
    /\ written' = [k \in DOMAIN written \ {key} |-> written[k]]
    /\ engine' = EngineCall("get", key, <<>>, RetNull) @@ [failed |-> "decode"]
    /\ UNCHANGED <<remote, isBatchMode, batchQueue, now, flows,
                   broadcastCallback, broadcasts, timesVisited, nextSweep>>

FaultNext ==
    \/ SetBroadcastCallback
    \/ \E k \in FaultKeys, v \in FaultValues, i \in BOOLEAN : CacheSetCall(k, v, 0, i)
    \/ \E k \in FaultKeys, v \in FaultValues, i \in BOOLEAN : GzipThrowsSetCall(k, v, i)
    \/ \E k \in FaultKeys : CacheGetCall(k)
    \/ \E k \in FaultKeys : DecodeThrowsGetCall(k)
    \/ \E k \in FaultKeys : CacheDeleteCall(k)

FaultSpec == Init /\ [][FaultNext]_vars

\* This step is a call in which serializing, compressing or decoding failed.
SetFailed ==
    /\ EngineCalls("set")
    /\ ~Serializable(engine'.data) \/ "failed" \in DOMAIN engine'
GetFailed == EngineCalls("get") /\ "failed" \in DOMAIN engine'

\* C30: when serializing or compressing fails in set, the value is stored
\* as it is, uncompressed, under the key, and set returns the value; when
\* decoding a compressed entry fails in get, the entry is removed and get
\* returns null; in neither case does the caller get an error.
C30_FailuresStayInside ==
    [][/\ SetFailed =>
            /\ Has(cache', engine'.key)
            /\ ~cache'[engine'.key].compressed
            /\ cache'[engine'.key].data = engine'.data
            /\ engine'.ret.kind = "value"
            /\ engine'.ret.val = engine'.data
       /\ GetFailed =>
            /\ ~Has(cache', engine'.key)
            /\ engine'.ret.kind = "null"
      ]_vars

-----------------------------------------------------------------------------
(* list() called with queries of different shapes.                          *)

\* {}, {filter: "created"} and {sort: "created"}.
QueryOptions ==
    {NoOptions,
     [NoOptions EXCEPT !.filter = Str("created")],
     [NoOptions EXCEPT !.sort = Str("created")]}

QueryNext ==
    \E f \in Flows :
        \/ \E c \in Collections, o \in QueryOptions : List(f, c, o)
        \/ \E r \in PendingReplies(f) : ListReply(f, r)
        \/ \E c \in Collections, id \in Ids, d \in DataSet : Update(f, c, id, d, NoExpand)
        \/ \E r \in PendingReplies(f) : UpdateReply(f, r)

QuerySpec == Init /\ [][QueryNext]_vars

\* The query a list call makes: its options after the defaults.
QueryOf(o) ==
    <<DefaultTo(o.page, 1), DefaultTo(o.limit, 10), o.filter, o.sort, ExpandPart(o.expand)>>

\* C31: a list call that follows a list call of the same collection which
\* missed the cache and returned, and whose (page, limit, filter, sort,
\* expand) differ from that call's, derives another cache key and so is not
\* answered from the entry that call populated.
C31_ListKeyInjective ==
    [][\A f \in Flows :
        (/\ Starts(f, "list")
         /\ flows[f].op = "list" /\ flows[f].pc = "returned" /\ flows[f].calls # <<>>
         /\ flows'[f].c = flows[f].c
         /\ QueryOf(flows'[f].options) # QueryOf(flows[f].options)) =>
            /\ ListKey(flows'[f].c, flows'[f].options) # ListKey(flows[f].c, flows[f].options)
            /\ flows'[f].calls # <<>>
      ]_vars

\* The queued operations the saveChanges() call has applied: the writes it
\* sent that the remote store answered without an error.  A call that
\* raised did so on the answer to its last write.
AppliedBy(call) ==
    IF call.pc = "raised" THEN SubSeq(call.calls, 1, Len(call.calls) - 1)
    ELSE IF call.pc = "returned" THEN call.calls
    ELSE <<>>

\* C33: a saveChanges() call never applies again an operation an earlier
\* saveChanges() call applied: when a call follows one that raised part-way
\* through the queue, the first write it sends is not for an entry of the
\* queue that the earlier call has already applied.
C33_AppliedAtMostOnce ==
    [][\A f \in Flows :
        (/\ flows[f].op = "saveChanges" /\ flows[f].pc = "raised"
         /\ flows'[f].op = "saveChanges" /\ flows'[f].pc = "await") =>
            \A i \in DOMAIN AppliedBy(flows[f]) :
                ~(/\ i = flows'[f].idx
                  /\ WriteOf(batchQueue[i]) = AppliedBy(flows[f])[i]
                  /\ flows'[f].calls[Len(flows'[f].calls)] = AppliedBy(flows[f])[i])
      ]_vars

-----------------------------------------------------------------------------
(* Two request handlers over a remote store that keeps its records: a       *)
(* request is carried out by the store at some moment between the call and  *)
(* the answer's arrival.                                                    *)

RaceCollections == {"posts"}

\* The fields of every record before any update.
StoredAtStart == [title |-> "0"]

\* No answer ready for a flow.
NotServed == [ok |-> FALSE, val |-> <<>>, status |-> 0]

RaceInit ==
    /\ isBatchMode = FALSE
    /\ batchQueue = <<>>
    /\ cache = <<>>
    /\ now = StartMs
    /\ flows = [f \in RequestFlows |-> NoCall]
    /\ broadcastCallback = FALSE
    /\ broadcasts = <<>>
    /\ timesVisited = <<>>
    /\ nextSweep = StartMs + SweepIntervalMs
    /\ written = <<>>
    /\ engine = NoEngineCall
    /\ remote = [store |-> [c \in RaceCollections |-> [id \in Ids |-> StoredAtStart]],
                 served |-> [f \in RequestFlows |-> NotServed]]

\* The records of collection c, as getList returns them.
RECURSIVE StoredList(_, _)
StoredList(records, ids) ==
    IF ids = {} THEN <<>>
    ELSE LET id == CHOOSE x \in ids : TRUE
         IN  <<RemoteRecord(id, records[id])>> \o StoredList(records, ids \ {id})

\* The remote store carries out the pending request of flow f: getOne and
\* getList read the records, update writes the fields it is given.
Serve(f) ==
    /\ flows[f].pc = "await"
    /\ remote.served[f].status = 0
    /\ LET req == Pending(flows[f])
           records == remote.store[req.c]
       IN  remote' =
              CASE req.method = "getOne" ->
                    [remote EXCEPT !.served[f] = Ok(RemoteRecord(req.id, records[req.id]))]
                [] req.method = "getList" ->
                    [remote EXCEPT !.served[f] = Ok(ListResult(StoredList(records, DOMAIN records)))]
                [] req.method = "update" ->
                    [remote EXCEPT !.store[req.c][req.id] = Spread(@, req.data),
                                   !.served[f] = Ok(RemoteRecord(req.id, Spread(records[req.id], req.data)))]
    /\ UNCHANGED <<isBatchMode, batchQueue, cache, now, flows,
                   broadcastCallback, broadcasts, timesVisited, nextSweep, written, engine>>

\* The answer has arrived: the store holds it no longer.
Forget(f) ==
    /\ flows[f].pc # "await"
    /\ remote.served[f].status # 0
    /\ remote' = [remote EXCEPT !.served[f] = NotServed]
    /\ UNCHANGED <<isBatchMode, batchQueue, cache, now, flows,
                   broadcastCallback, broadcasts, timesVisited, nextSweep, written, engine>>

RaceNext ==
    \E f \in RequestFlows :
        \/ /\ remote.served[f].status = 0
           /\ \E c \in RaceCollections, id \in Ids : Get(f, c, id, NoExpand)
        \/ /\ remote.served[f].status = 0
           /\ \E c \in RaceCollections : List(f, c, NoOptions)
        \/ /\ remote.served[f].status = 0
           /\ \E c \in RaceCollections, id \in Ids, d \in DataSet : Update(f, c, id, d, NoExpand)
        \/ Serve(f)
        \/ remote.served[f].status # 0 /\ GetReply(f, remote.served[f])
        \/ remote.served[f].status # 0 /\ ListReply(f, remote.served[f])
        \/ remote.served[f].status # 0 /\ UpdateReply(f, remote.served[f])
        \/ Forget(f)

RaceSpec == RaceInit /\ [][RaceNext]_vars

\* No call is awaiting the remote store.
Quiescent == \A f \in RequestFlows : flows[f].pc # "await"

\* C32: once every operation has completed, the cache holds no record older
\* than the remote store: a cached get entry and the items of a cached list
\* have the fields the store holds for their record.
C32_NoStaleEntryLeft ==
    Quiescent =>
        \A c \in RaceCollections :
            /\ \A id \in Ids :
                    Has(cache, GetKey(c, id, NoExpand)) =>
                        CacheValue(cache, GetKey(c, id, NoExpand)).title
                            = remote.store[c][id].title
            /\ Has(cache, ListKey(c, NoOptions)) =>
                    LET items == CacheValue(cache, ListKey(c, NoOptions)).items
                    IN  \A i \in DOMAIN items :
                            items[i].title = remote.store[c][items[i].id].title

====
